---- MODULE Spec2Model ----
(***************************************************************************)
(* Model of the Python binding of rust-code-analysis                       *)
(* (rust-code-analysis-python/src/lib.rs and src/types.rs).                *)
(*                                                                         *)
(* Three specifications share the variables:                               *)
(*   Spec         the binding's entry points (analyze, analyze_file,       *)
(*                supported_languages, language_from_extension) and the    *)
(*                queries on the tree the last call returned;              *)
(*   SpecHistory  the same calls, with one analyze call kept and compared  *)
(*                with later analyze calls that have the same arguments;   *)
(*   SpecTree     convert_func_space and the tree queries over every       *)
(*                native region tree of at most MaxNodes nodes.            *)
(*                                                                         *)
(* The engine (rca::get_from_ext, guess_language, get_function_spaces and  *)
(* the raw statistics) is outside the binding's sources; it is modelled    *)
(* from its interface as the binding uses it.                              *)
(*                                                                         *)
(* Encodings.  Option<T>: None is <<>>, Some(x) is <<x>>.  f64: a record   *)
(* [cls, val] with cls in {"finite","nan","inf"}.  Strings are TLA+        *)
(* strings, compared case-sensitively as Rust &str is.                     *)
(***************************************************************************)
EXTENDS Integers, Sequences, FiniteSets, TLC

VARIABLES native, tree, qres, last, seen

vars == <<native, tree, qres, last, seen>>

\* ------------------------------------------------------------------------
\* Bounds
\* ------------------------------------------------------------------------
MaxNodes == 4

\* ------------------------------------------------------------------------
\* Option and f64 values
\* ------------------------------------------------------------------------
None == <<>>

Some(x) == <<x>>

IsSome(o) == Len(o) = 1

Unwrap(o) == o[1]

F(n) == [cls |-> "finite", val |-> n]

NaN == [cls |-> "nan", val |-> 0]

Infinity == [cls |-> "inf", val |-> 0]

IsFinite(x) == x.cls = "finite"

Range(s) == {s[i] : i \in 1..Len(s)}

\* ------------------------------------------------------------------------
\* SpaceKind -> PySpaceKind (types.rs 7-33).  PySpaceKind is modelled by
\* its discriminant, SpaceKind by its variant name.
\* ------------------------------------------------------------------------
SpaceKinds == {"Unknown", "Function", "Class", "Struct", "Trait", "Impl", "Unit", "Namespace", "Interface"}

PySpaceKind == [Unknown |-> 0, Function |-> 1, Class |-> 2, Struct |-> 3, Trait |-> 4, Impl |-> 5, Unit |-> 6, Namespace |-> 7, Interface |-> 8]

PySpaceKindName(d) == CHOOSE k \in SpaceKinds : PySpaceKind[k] = d

From_SpaceKind_swapped(kind) ==
    CASE kind = "Unknown" -> PySpaceKind.Unknown
      [] kind = "Function" -> PySpaceKind.Function
      [] kind = "Class" -> PySpaceKind.Class
      [] kind = "Struct" -> PySpaceKind.Struct
      [] kind = "Trait" -> PySpaceKind.Interface
      [] kind = "Impl" -> PySpaceKind.Impl
      [] kind = "Unit" -> PySpaceKind.Unit
      [] kind = "Namespace" -> PySpaceKind.Namespace
      [] kind = "Interface" -> PySpaceKind.Trait

From_SpaceKind(kind) ==
    CASE kind = "Unknown" -> PySpaceKind.Unknown
      [] kind = "Function" -> PySpaceKind.Function
      [] kind = "Class" -> PySpaceKind.Class
      [] kind = "Struct" -> PySpaceKind.Struct
      [] kind = "Trait" -> PySpaceKind.Trait
      [] kind = "Impl" -> PySpaceKind.Impl
      [] kind = "Unit" -> PySpaceKind.Unit
      [] kind = "Namespace" -> PySpaceKind.Namespace
      [] kind = "Interface" -> PySpaceKind.Interface

\* ------------------------------------------------------------------------
\* The twelve metric group converters (types.rs 45-520).  A raw statistics
\* provider is a record keyed by the engine's accessor names; each
\* converter copies accessor values into the public field of the binding.
\* ------------------------------------------------------------------------
From_cyclomatic(stats) ==
    [sum |-> stats.cyclomatic_sum,
     average |-> stats.cyclomatic_average,
     min |-> stats.cyclomatic_min,
     max |-> stats.cyclomatic_max]

From_cognitive(stats) ==
    [sum |-> stats.cognitive_sum,
     average |-> stats.cognitive_average,
     min |-> stats.cognitive_min,
     max |-> stats.cognitive_max]

From_halstead(stats) ==
    [n1 |-> stats.u_operators,
     big_n1 |-> stats.operators,
     n2 |-> stats.u_operands,
     big_n2 |-> stats.operands,
     length |-> stats.length,
     estimated_program_length |-> stats.estimated_program_length,
     purity_ratio |-> stats.purity_ratio,
     vocabulary |-> stats.vocabulary,
     volume |-> stats.volume,
     difficulty |-> stats.difficulty,
     level |-> stats.level,
     effort |-> stats.effort,
     time |-> stats.time,
     bugs |-> stats.bugs]

From_loc(stats) ==
    [sloc |-> stats.sloc,
     ploc |-> stats.ploc,
     lloc |-> stats.lloc,
     cloc |-> stats.cloc,
     blank |-> stats.blank,
     sloc_average |-> stats.sloc_average,
     ploc_average |-> stats.ploc_average,
     lloc_average |-> stats.lloc_average,
     cloc_average |-> stats.cloc_average,
     blank_average |-> stats.blank_average,
     sloc_min |-> stats.sloc_min,
     sloc_max |-> stats.sloc_max,
     ploc_min |-> stats.ploc_min,
     ploc_max |-> stats.ploc_max,
     lloc_min |-> stats.lloc_min,
     lloc_max |-> stats.lloc_max,
     cloc_min |-> stats.cloc_min,
     cloc_max |-> stats.cloc_max,
     blank_min |-> stats.blank_min,
     blank_max |-> stats.blank_max]

From_mi(stats) ==
    [mi_original |-> stats.mi_original,
     mi_sei |-> stats.mi_sei,
     mi_visual_studio |-> stats.mi_visual_studio]

From_abc(stats) ==
    [assignments |-> stats.assignments_sum,
     branches |-> stats.branches_sum,
     conditions |-> stats.conditions_sum,
     magnitude |-> stats.magnitude_sum,
     assignments_average |-> stats.assignments_average,
     branches_average |-> stats.branches_average,
     conditions_average |-> stats.conditions_average,
     assignments_min |-> stats.assignments_min,
     assignments_max |-> stats.assignments_max,
     branches_min |-> stats.branches_min,
     branches_max |-> stats.branches_max,
     conditions_min |-> stats.conditions_min,
     conditions_max |-> stats.conditions_max]

From_nom(stats) ==
    [functions |-> stats.functions_sum,
     closures |-> stats.closures_sum,
     total |-> stats.total,
     functions_average |-> stats.functions_average,
     closures_average |-> stats.closures_average,
     average |-> stats.average,
     functions_min |-> stats.functions_min,
     functions_max |-> stats.functions_max,
     closures_min |-> stats.closures_min,
     closures_max |-> stats.closures_max]

From_nargs(stats) ==
    [total_functions |-> stats.fn_args_sum,
     total_closures |-> stats.closure_args_sum,
     average_functions |-> stats.fn_args_average,
     average_closures |-> stats.closure_args_average,
     total |-> stats.nargs_total,
     average |-> stats.nargs_average,
     functions_min |-> stats.fn_args_min,
     functions_max |-> stats.fn_args_max,
     closures_min |-> stats.closure_args_min,
     closures_max |-> stats.closure_args_max]

From_exit(stats) ==
    [sum |-> stats.exit_sum,
     average |-> stats.exit_average,
     min |-> stats.exit_min,
     max |-> stats.exit_max]

From_wmc(stats) ==
    [classes |-> stats.class_wmc_sum,
     interfaces |-> stats.interface_wmc_sum,
     total |-> stats.total_wmc]

From_npm(stats) ==
    [classes |-> stats.class_npm_sum,
     interfaces |-> stats.interface_npm_sum,
     total |-> stats.total_npm]

From_npa(stats) ==
    [classes |-> stats.class_npa_sum,
     interfaces |-> stats.interface_npa_sum,
     total |-> stats.total_npa]

\* types.rs 549-566: the aggregate record, one converter per category.
From_CodeMetrics(metrics) ==
    [cyclomatic |-> From_cyclomatic(metrics.cyclomatic),
     cognitive |-> From_cognitive(metrics.cognitive),
     halstead |-> From_halstead(metrics.halstead),
     loc |-> From_loc(metrics.loc),
     mi |-> From_mi(metrics.mi),
     abc |-> From_abc(metrics.abc),
     nom |-> From_nom(metrics.nom),
     nargs |-> From_nargs(metrics.nargs),
     nexits |-> From_exit(metrics.nexits),
     wmc |-> From_wmc(metrics.wmc),
     npm |-> From_npm(metrics.npm),
     npa |-> From_npa(metrics.npa)]

\* ------------------------------------------------------------------------
\* The engine's raw statistics (the accessors read by the converters).
\* A provider is a record accessor -> f64.  Profile "typical" gives every
\* accessor its own finite value; profile "empty" is a region without
\* operators and operands, where the engine's quotients are undefined.
\* ------------------------------------------------------------------------
CyclomaticAccessors == <<"cyclomatic_sum", "cyclomatic_average", "cyclomatic_min", "cyclomatic_max">>

CognitiveAccessors == <<"cognitive_sum", "cognitive_average", "cognitive_min", "cognitive_max">>

HalsteadAccessors == <<"u_operators", "operators", "u_operands", "operands", "length", "estimated_program_length", "purity_ratio", "vocabulary", "volume", "difficulty", "level", "effort", "time", "bugs">>

LocAccessors == <<"sloc", "ploc", "lloc", "cloc", "blank", "sloc_average", "ploc_average", "lloc_average", "cloc_average", "blank_average", "sloc_min", "sloc_max", "ploc_min", "ploc_max", "lloc_min", "lloc_max", "cloc_min", "cloc_max", "blank_min", "blank_max">>

MiAccessors == <<"mi_original", "mi_sei", "mi_visual_studio">>

AbcAccessors == <<"assignments_sum", "branches_sum", "conditions_sum", "magnitude_sum", "assignments_average", "branches_average", "conditions_average", "assignments_min", "assignments_max", "branches_min", "branches_max", "conditions_min", "conditions_max">>

NomAccessors == <<"functions_sum", "closures_sum", "total", "functions_average", "closures_average", "average", "functions_min", "functions_max", "closures_min", "closures_max">>

NargsAccessors == <<"fn_args_sum", "closure_args_sum", "fn_args_average", "closure_args_average", "nargs_total", "nargs_average", "fn_args_min", "fn_args_max", "closure_args_min", "closure_args_max">>

ExitAccessors == <<"exit_sum", "exit_average", "exit_min", "exit_max">>

WmcAccessors == <<"class_wmc_sum", "interface_wmc_sum", "total_wmc">>

NpmAccessors == <<"class_npm_sum", "interface_npm_sum", "total_npm">>

NpaAccessors == <<"class_npa_sum", "interface_npa_sum", "total_npa">>

\* Accessors whose formula divides by a count that is zero in an empty region.
UndefinedWhenEmpty == {"purity_ratio", "volume", "difficulty", "effort", "time", "bugs", "mi_original", "mi_sei", "mi_visual_studio"}

RawStats(accessors, base, profile) ==
    [a \in Range(accessors) |->
        IF profile = "empty"
        THEN IF a = "level" THEN Infinity
             ELSE IF a \in UndefinedWhenEmpty THEN NaN ELSE F(0)
        ELSE F(base + (CHOOSE i \in 1..Len(accessors) : accessors[i] = a))]

RawCodeMetrics(profile, seed) ==
    [cyclomatic |-> RawStats(CyclomaticAccessors, seed + 100, profile),
     cognitive |-> RawStats(CognitiveAccessors, seed + 200, profile),
     halstead |-> RawStats(HalsteadAccessors, seed + 300, profile),
     loc |-> RawStats(LocAccessors, seed + 400, profile),
     mi |-> RawStats(MiAccessors, seed + 500, profile),
     abc |-> RawStats(AbcAccessors, seed + 600, profile),
     nom |-> RawStats(NomAccessors, seed + 700, profile),
     nargs |-> RawStats(NargsAccessors, seed + 800, profile),
     nexits |-> RawStats(ExitAccessors, seed + 900, profile),
     wmc |-> RawStats(WmcAccessors, seed + 1000, profile),
     npm |-> RawStats(NpmAccessors, seed + 1100, profile),
     npa |-> RawStats(NpaAccessors, seed + 1200, profile)]

\* ------------------------------------------------------------------------
\* The engine's native region tree (rca::FuncSpace as read at types.rs
\* 655-663): name, start_line, end_line, kind, metrics, spaces.
\* ------------------------------------------------------------------------
FuncSpace(name, start_line, end_line, kind, metrics, spaces) ==
    [name |-> name, start_line |-> start_line, end_line |-> end_line,
     kind |-> kind, metrics |-> metrics, spaces |-> spaces]

WithSpaces(label, spaces) ==
    FuncSpace(label.name, label.start_line, label.end_line, label.kind, label.metrics, spaces)

\* The regions a native tree is assembled from: a named function, an
\* anonymous closure with undefined quotients and a class.
NodeLabels ==
    {FuncSpace(Some("foo"), 2, 3, "Function", RawCodeMetrics("typical", 0), <<>>),
     FuncSpace(None, 3, 3, "Function", RawCodeMetrics("empty", 0), <<>>),
     FuncSpace(Some("Bar"), 4, 9, "Class", RawCodeMetrics("typical", 2000), <<>>)}

\* ForestsOfSize[m]: the sequences of trees with m nodes in total;
\* TreesOfSize(n): the trees with n nodes.
ForestsOfSize[m \in 0..MaxNodes] ==
    IF m = 0 THEN {<<>>}
    ELSE UNION {{<<WithSpaces(l, f)>> \o g : l \in NodeLabels, f \in ForestsOfSize[k - 1], g \in ForestsOfSize[m - k]} : k \in 1..m}

TreesOfSize(n) == {WithSpaces(l, f) : l \in NodeLabels, f \in ForestsOfSize[n - 1]}

\* One region of every kind under a unit, so that each arm of the kind
\* conversion is exercised.
KindOrder == <<"Unknown", "Function", "Class", "Struct", "Trait", "Impl", "Namespace", "Interface">>

AllKindsTree ==
    FuncSpace(Some("lib.rs"), 1, 20, "Unit", RawCodeMetrics("typical", 4000),
              [i \in 1..Len(KindOrder) |->
                  FuncSpace(Some(KindOrder[i]), 2 * i, 2 * i + 1, KindOrder[i],
                            RawCodeMetrics("typical", 10 * i), <<>>)])

NativeTrees == UNION {TreesOfSize(n) : n \in 1..MaxNodes} \cup {AllKindsTree}

\* ------------------------------------------------------------------------
\* convert_func_space (types.rs 655-664)
\* ------------------------------------------------------------------------
RECURSIVE convert_func_space(_)

convert_func_space_swapped_kind(space) ==
    [name |-> space.name,
     start_line |-> space.start_line,
     end_line |-> space.end_line,
     kind |-> From_SpaceKind_swapped(space.kind),
     metrics |-> From_CodeMetrics(space.metrics),
     spaces |-> [i \in 1..Len(space.spaces) |-> convert_func_space(space.spaces[i])]]

convert_func_space(space) ==
    [name |-> space.name,
     start_line |-> space.start_line,
     end_line |-> space.end_line,
     kind |-> From_SpaceKind(space.kind),
     metrics |-> From_CodeMetrics(space.metrics),
     spaces |-> [i \in 1..Len(space.spaces) |-> convert_func_space(space.spaces[i])]]

\* ------------------------------------------------------------------------
\* Tree queries (types.rs 595-652).  A &mut Vec argument is modelled by
\* taking the vector and returning the vector after the call.
\* ------------------------------------------------------------------------
RECURSIVE collect_by_kind(_, _, _), collect_by_kind_loop(_, _, _, _)

collect_by_kind_no_descent(self, result, kind) ==
    IF self.kind = kind THEN Append(result, self)
    ELSE collect_by_kind_loop(self.spaces, 1, result, kind)

collect_by_kind(self, result, kind) ==
    LET pushed == IF self.kind = kind THEN Append(result, self) ELSE result
    IN  collect_by_kind_loop(self.spaces, 1, pushed, kind)

collect_by_kind_loop(spaces, i, result, kind) ==
    IF i > Len(spaces) THEN result
    ELSE collect_by_kind_loop(spaces, i + 1, collect_by_kind(spaces[i], result, kind), kind)

RECURSIVE collect_all(_, _), collect_all_loop(_, _, _)

\* Mutant: the children are visited last to first.
collect_all_reversed(self, result) ==
    LET n == Len(self.spaces)
    IN  collect_all_loop([i \in 1..n |-> self.spaces[n + 1 - i]], 1, Append(result, self))

collect_all_post_order(self, result) ==
    Append(collect_all_loop(self.spaces, 1, result), self)

collect_all(self, result) ==
    collect_all_loop(self.spaces, 1, Append(result, self))

collect_all_loop(spaces, i, result) ==
    IF i > Len(spaces) THEN result
    ELSE collect_all_loop(spaces, i + 1, collect_all(spaces[i], result))

spaces(self) == self.spaces

get_functions(self) == collect_by_kind(self, <<>>, PySpaceKind.Function)

get_classes(self) == collect_by_kind(self, <<>>, PySpaceKind.Class)

get_all_spaces(self) == collect_all(self, <<>>)

\* ------------------------------------------------------------------------
\* The engine and the file system as the binding calls them.
\* ------------------------------------------------------------------------
\* std::path::Path::extension on the paths of the model.
Paths == {"example.py", "notes.txt", "missing.rs"}

PathExtension(path) ==
    CASE path = "example.py" -> Some("py")
      [] path = "notes.txt" -> Some("txt")
      [] path = "missing.rs" -> Some("rs")
      [] OTHER -> None

\* rca::get_from_ext: the engine's lookup of a LANG by file extension.
get_from_ext(ext) ==
    CASE ext = "py" -> Some("Python")
      [] ext = "rs" -> Some("Rust")
      [] ext = "java" -> Some("Java")
      [] ext \in {"js", "jsx", "mjs"} -> Some("Javascript")
      [] ext = "ts" -> Some("Typescript")
      [] ext = "tsx" -> Some("Tsx")
      [] ext \in {"kt", "kts"} -> Some("Kotlin")
      [] ext \in {"cpp", "cxx", "cc", "c", "h", "hpp", "hxx"} -> Some("Cpp")
      [] OTHER -> None

SrcPy == "def foo():\n    pass"

SrcModeLine == "# -*- mode: python -*-"

SrcBad == "def foo(:"

Sources == {SrcPy, SrcModeLine, SrcBad}

\* The editor mode a source declares in its first line, as an extension.
ModeOfSource(source_bytes) == IF source_bytes = SrcModeLine THEN Some("py") ELSE None

\* rca::guess_language(...).0: the extension of the path, then the content.
guess_language(source_bytes, path) ==
    LET ext == PathExtension(path)
        byExt == IF IsSome(ext) THEN get_from_ext(Unwrap(ext)) ELSE None
        mode == ModeOfSource(source_bytes)
    IN  IF IsSome(byExt) THEN byExt
        ELSE IF IsSome(mode) THEN get_from_ext(Unwrap(mode)) ELSE None

LangSeed(lang) ==
    CASE lang = "Python" -> 0
      [] lang = "Rust" -> 20
      [] lang = "Java" -> 40
      [] lang = "Javascript" -> 60
      [] lang = "Typescript" -> 80
      [] lang = "Tsx" -> 5000
      [] lang = "Kotlin" -> 5020
      [] lang = "Cpp" -> 5040

\* rca::get_function_spaces: the region tree of a source under a grammar,
\* absent for a source the engine cannot turn into a tree.  The root is the
\* unit named after the path.
get_function_spaces(lang, source_bytes, path) ==
    CASE source_bytes = SrcBad -> None
      [] source_bytes = SrcModeLine ->
            Some(FuncSpace(Some(path), 1, 1, "Unit", RawCodeMetrics("empty", 0), <<>>))
      [] source_bytes = SrcPy ->
            Some(FuncSpace(Some(path), 1, 2, "Unit", RawCodeMetrics("typical", LangSeed(lang)),
                           IF lang = "Python"
                           THEN <<FuncSpace(Some("foo"), 1, 2, "Function", RawCodeMetrics("typical", 40), <<>>)>>
                           ELSE <<>>))

\* std::fs::read_to_string: Ok(content) or Err(e).
read_to_string(path) ==
    CASE path = "example.py" -> [ok |-> TRUE, content |-> SrcPy, e |-> ""]
      [] path = "notes.txt" -> [ok |-> TRUE, content |-> SrcModeLine, e |-> ""]
      [] OTHER -> [ok |-> FALSE, content |-> "", e |-> "No such file or directory (os error 2)"]

\* ------------------------------------------------------------------------
\* lib.rs.  A PyResult is [tag, value, exc, msg]: tag "Ok" with
\* value = Some(tree), or tag "Err" with the exception class and the parts
\* of its message.  An entry point returns its PyResult together with the
\* collaborators it called, in call order.
\* ------------------------------------------------------------------------
Ok(t) == [tag |-> "Ok", value |-> Some(t), exc |-> "", msg |-> <<>>]

PyErr(exc, msg) == [tag |-> "Err", value |-> None, exc |-> exc, msg |-> msg]

UnsupportedLanguage(lang_str) ==
    PyErr("PyValueError", <<"Unsupported language: '", lang_str, "'. Use supported_languages() to see available options.">>)

\* Mutant: failed inference is reported with the message of a rejected
\* explicit token.
LanguageUndetermined_as_unsupported(path) ==
    PyErr("PyValueError", <<"Unsupported language: '", path, "'. Use supported_languages() to see available options.">>)

LanguageUndetermined(path) ==
    PyErr("PyValueError", <<"Could not determine language from file extension: '", path, "'">>)

ParseFailure == PyErr("PyValueError", <<"Failed to parse source code">>)

IoFailure(path, e) == PyErr("PyIOError", <<"Failed to read file '", path, "': ", e>>)

\* source.as_bytes().to_vec(): the bytes of the string, unchanged.
as_bytes(source) == source

\* lib.rs 37-52: the language of the call and the lookup that produced it.
ResolveCall(language) == IF IsSome(language) THEN "get_from_ext" ELSE "guess_language"

ResolveLanguage(source_bytes, path, language) ==
    IF IsSome(language) THEN get_from_ext(Unwrap(language))
    ELSE guess_language(source_bytes, path)

ResolveError(path, language) ==
    IF IsSome(language) THEN UnsupportedLanguage(Unwrap(language))
    ELSE LanguageUndetermined(path)

\* Mutant: an unrecognised explicit token falls back to inference.
analyze_fallback_to_inference(source, path, language) ==
    LET source_bytes == as_bytes(source)
        explicit == IF IsSome(language) THEN get_from_ext(Unwrap(language)) ELSE None
        lang == IF IsSome(explicit) THEN explicit ELSE guess_language(source_bytes, path)
        resolve == IF IsSome(language) /\ ~IsSome(explicit)
                   THEN <<"get_from_ext", "guess_language">> ELSE <<ResolveCall(language)>>
    IN  IF ~IsSome(lang)
        THEN [result |-> ResolveError(path, language), calls |-> resolve]
        ELSE LET space == get_function_spaces(Unwrap(lang), source_bytes, path)
             IN  IF ~IsSome(space)
                 THEN [result |-> ParseFailure, calls |-> resolve \o <<"get_function_spaces">>]
                 ELSE [result |-> Ok(convert_func_space(Unwrap(space))),
                       calls |-> resolve \o <<"get_function_spaces", "convert_func_space">>]

\* Mutant: an absent region tree is replaced by an empty unit instead of
\* failing the call.
analyze_default_on_parse_failure(source, path, language) ==
    LET source_bytes == as_bytes(source)
        lang == ResolveLanguage(source_bytes, path, language)
    IN  IF ~IsSome(lang)
        THEN [result |-> ResolveError(path, language), calls |-> <<ResolveCall(language)>>]
        ELSE LET space == get_function_spaces(Unwrap(lang), source_bytes, path)
                 default == FuncSpace(None, 0, 0, "Unit", RawCodeMetrics("empty", 0), <<>>)
             IN  [result |-> Ok(convert_func_space(IF IsSome(space) THEN Unwrap(space) ELSE default)),
                  calls |-> <<ResolveCall(language), "get_function_spaces", "convert_func_space">>]

\* Mutant: the tree of the previous call is reused when the path is the
\* same, whatever the source and the language are; analyze_uncached is the
\* path taken on a cache miss.
analyze_uncached(source, path, language) ==
    LET source_bytes == as_bytes(source)
        lang == ResolveLanguage(source_bytes, path, language)
    IN  IF ~IsSome(lang)
        THEN [result |-> ResolveError(path, language), calls |-> <<ResolveCall(language)>>]
        ELSE LET space == get_function_spaces(Unwrap(lang), source_bytes, path)
             IN  IF ~IsSome(space)
                 THEN [result |-> ParseFailure,
                       calls |-> <<ResolveCall(language), "get_function_spaces">>]
                 ELSE [result |-> Ok(convert_func_space(Unwrap(space))),
                       calls |-> <<ResolveCall(language), "get_function_spaces", "convert_func_space">>]

analyze_cached_by_path(source, path, language) ==
    IF /\ IsSome(tree)
       /\ last.op \in {"analyze", "analyze_file"}
       /\ last.args[Len(last.args) - 1] = path
    THEN [result |-> Ok(Unwrap(tree)), calls |-> <<>>]
    ELSE analyze_uncached(source, path, language)

analyze(source, path, language) ==
    LET source_bytes == as_bytes(source)
        lang == ResolveLanguage(source_bytes, path, language)
    IN  IF ~IsSome(lang)
        THEN [result |-> ResolveError(path, language), calls |-> <<ResolveCall(language)>>]
        ELSE LET space == get_function_spaces(Unwrap(lang), source_bytes, path)
             IN  IF ~IsSome(space)
                 THEN [result |-> ParseFailure,
                       calls |-> <<ResolveCall(language), "get_function_spaces">>]
                 ELSE [result |-> Ok(convert_func_space(Unwrap(space))),
                       calls |-> <<ResolveCall(language), "get_function_spaces", "convert_func_space">>]

\* Mutant: the language token is validated before the file is read.
analyze_file_resolve_first(path, language) ==
    IF IsSome(language) /\ ~IsSome(get_from_ext(Unwrap(language)))
    THEN [result |-> UnsupportedLanguage(Unwrap(language)), calls |-> <<"get_from_ext">>]
    ELSE LET read == read_to_string(path)
         IN  IF ~read.ok
             THEN [result |-> IoFailure(path, read.e), calls |-> <<"read_to_string">>]
             ELSE LET r == analyze(read.content, path, language)
                  IN  [result |-> r.result, calls |-> <<"read_to_string">> \o r.calls]

\* lib.rs 80-85
analyze_file(path, language) ==
    LET read == read_to_string(path)
    IN  IF ~read.ok
        THEN [result |-> IoFailure(path, read.e), calls |-> <<"read_to_string">>]
        ELSE LET r == analyze(read.content, path, language)
             IN  [result |-> r.result, calls |-> <<"read_to_string">> \o r.calls]

\* lib.rs 97-109
supported_languages ==
    <<"python", "rust", "java", "javascript", "typescript", "tsx", "kotlin", "cpp", "c">>

\* Mutant: the C extensions map to the listed name "c".
language_from_extension_c_as_c(extension) ==
    CASE extension = "py" -> Some("python")
      [] extension = "rs" -> Some("rust")
      [] extension = "java" -> Some("java")
      [] extension \in {"js", "jsx", "mjs"} -> Some("javascript")
      [] extension = "ts" -> Some("typescript")
      [] extension = "tsx" -> Some("tsx")
      [] extension \in {"kt", "kts"} -> Some("kotlin")
      [] extension \in {"c", "h"} -> Some("c")
      [] extension \in {"cpp", "cxx", "cc", "hpp", "hxx"} -> Some("cpp")
      [] OTHER -> None

\* Mutant: the extension is lower-cased before the match.
language_from_extension_ignoring_case(extension) ==
    CASE extension \in {"py", "PY", "Py"} -> Some("python")
      [] extension \in {"rs", "RS"} -> Some("rust")
      [] extension = "java" -> Some("java")
      [] extension \in {"js", "jsx", "mjs"} -> Some("javascript")
      [] extension = "ts" -> Some("typescript")
      [] extension = "tsx" -> Some("tsx")
      [] extension \in {"kt", "kts"} -> Some("kotlin")
      [] extension \in {"cpp", "cxx", "cc", "c", "h", "hpp", "hxx"} -> Some("cpp")
      [] OTHER -> None

\* lib.rs 126-138
language_from_extension(extension) ==
    CASE extension = "py" -> Some("python")
      [] extension = "rs" -> Some("rust")
      [] extension = "java" -> Some("java")
      [] extension \in {"js", "jsx", "mjs"} -> Some("javascript")
      [] extension = "ts" -> Some("typescript")
      [] extension = "tsx" -> Some("tsx")
      [] extension \in {"kt", "kts"} -> Some("kotlin")
      [] extension \in {"cpp", "cxx", "cc", "c", "h", "hpp", "hxx"} -> Some("cpp")
      [] OTHER -> None

\* ------------------------------------------------------------------------
\* State.
\*   native  Option: the engine's region tree handed to convert_func_space
\*   tree    Option: the PyFuncSpace the last entry-point call returned
\*   qres    the last query on tree and the vector it returned
\*   last    the last entry-point call: its arguments, what it returned and
\*           the collaborators it called, in order
\*   seen    Option: one earlier analyze call (arguments and outcome) kept
\*           for comparison, whether other calls followed it and whether
\*           analyze was called again with the same arguments
\* ------------------------------------------------------------------------
NoQuery == [op |-> "none", out |-> <<>>]

\* A call other than the repetition of the kept call was made after it.
MarkOther(s) ==
    IF IsSome(s) /\ ~Unwrap(s).repeated
    THEN Some([Unwrap(s) EXCEPT !.others = TRUE])
    ELSE s

NoCall == [op |-> "none", args |-> <<>>, out |-> <<>>, calls |-> <<>>]

\* ------------------------------------------------------------------------
\* Queries, as called on the tree the caller holds.
\* ------------------------------------------------------------------------
Spaces ==
    /\ IsSome(tree)
    /\ qres' = [op |-> "spaces", out |-> spaces(Unwrap(tree))]
    /\ seen' = MarkOther(seen)
    /\ UNCHANGED <<native, tree, last>>

\* Mutant: the query moves the children out of the node it is called on.
GetFunctions_taking_children ==
    /\ IsSome(tree)
    /\ qres' = [op |-> "get_functions", out |-> get_functions(Unwrap(tree))]
    /\ tree' = Some([Unwrap(tree) EXCEPT !.spaces = <<>>])
    /\ seen' = MarkOther(seen)
    /\ UNCHANGED <<native, last>>

GetFunctions ==
    /\ IsSome(tree)
    /\ qres' = [op |-> "get_functions", out |-> get_functions(Unwrap(tree))]
    /\ seen' = MarkOther(seen)
    /\ UNCHANGED <<native, tree, last>>

GetClasses ==
    /\ IsSome(tree)
    /\ qres' = [op |-> "get_classes", out |-> get_classes(Unwrap(tree))]
    /\ seen' = MarkOther(seen)
    /\ UNCHANGED <<native, tree, last>>

GetAllSpaces ==
    /\ IsSome(tree)
    /\ qres' = [op |-> "get_all_spaces", out |-> get_all_spaces(Unwrap(tree))]
    /\ seen' = MarkOther(seen)
    /\ UNCHANGED <<native, tree, last>>

\* ------------------------------------------------------------------------
\* Spec: the entry points of lib.rs called in any order with any of the
\* arguments below, and the queries on the tree the last call returned.
\* ------------------------------------------------------------------------
LanguageTokens == {None} \cup {Some(x) : x \in Range(supported_languages) \cup {"cobol"}}

TableExtensions == {"py", "rs", "java", "js", "jsx", "mjs", "ts", "tsx", "kt", "kts", "cpp", "cxx", "cc", "c", "h", "hpp", "hxx"}

Extensions ==
    TableExtensions
    \cup {"PY", "Py", "RS", "JAVA", "Js", "TS", "KT", "CPP", "C", "H"}
    \cup {".py", ".rs", ".java", ".js", ".ts", ".kt", ".cpp", ".c", ".h"}
    \cup {"", "unknown", "unknown-ext", "txt", "python", "rust", "kotlin", "javascript", "typescript"}

Init ==
    /\ native = None
    /\ tree = None
    /\ qres = NoQuery
    /\ last = NoCall
    /\ seen = None

AnalyzeCall(source, path, language) ==
    LET r == analyze(source, path, language)
    IN  /\ last' = [op |-> "analyze", args |-> <<source, path, language>>,
                    out |-> r.result, calls |-> r.calls]
        /\ tree' = r.result.value
        /\ qres' = NoQuery
        /\ UNCHANGED native

AnalyzeFileCall(path, language) ==
    LET r == analyze_file(path, language)
    IN  /\ last' = [op |-> "analyze_file", args |-> <<path, language>>,
                    out |-> r.result, calls |-> r.calls]
        /\ tree' = r.result.value
        /\ qres' = NoQuery
        /\ UNCHANGED native

Analyze ==
    \E source \in Sources, path \in Paths, language \in LanguageTokens :
        AnalyzeCall(source, path, language) /\ UNCHANGED seen

AnalyzeFile ==
    \E path \in Paths, language \in LanguageTokens :
        AnalyzeFileCall(path, language) /\ UNCHANGED seen

SupportedLanguages ==
    /\ last' = [op |-> "supported_languages", args |-> <<>>,
                out |-> supported_languages, calls |-> <<>>]
    /\ tree' = None
    /\ qres' = NoQuery
    /\ seen' = MarkOther(seen)
    /\ UNCHANGED native

LanguageFromExtension ==
    \E extension \in Extensions :
        /\ last' = [op |-> "language_from_extension", args |-> <<extension>>,
                    out |-> language_from_extension(extension), calls |-> <<>>]
        /\ tree' = None
        /\ qres' = NoQuery
        /\ UNCHANGED <<native, seen>>

Next ==
    \/ Analyze
    \/ AnalyzeFile
    \/ SupportedLanguages
    \/ LanguageFromExtension
    \/ Spaces
    \/ GetFunctions
    \/ GetClasses
    \/ GetAllSpaces

Spec == Init /\ [][Next]_vars

\* ------------------------------------------------------------------------
\* SpecHistory: the same calls, with one analyze call kept in seen and
\* compared with every later analyze call that has the same arguments.  The
\* language is inferred, an accepted token or a rejected token.
\* ------------------------------------------------------------------------
TrackedTokens == {None, Some("java"), Some("cobol")}

\* Either the call is kept for a later comparison, or the kept call is
\* compared against.
Keep(args, out) ==
    IF seen = None
    THEN {None, Some([args |-> args, out |-> out, others |-> FALSE, repeated |-> FALSE])}
    ELSE IF Unwrap(seen).args = args
         THEN {Some([Unwrap(seen) EXCEPT !.repeated = TRUE])}
         ELSE {MarkOther(seen)}

AnalyzeTracked ==
    \E source \in Sources, path \in Paths, language \in TrackedTokens :
        /\ AnalyzeCall(source, path, language)
        /\ seen' \in Keep(<<source, path, language>>, last'.out)

AnalyzeFileTracked ==
    \E path \in Paths, language \in TrackedTokens :
        AnalyzeFileCall(path, language) /\ seen' = MarkOther(seen)

NextHistory ==
    \/ AnalyzeTracked
    \/ AnalyzeFileTracked
    \/ SupportedLanguages
    \/ Spaces
    \/ GetFunctions
    \/ GetClasses
    \/ GetAllSpaces

SpecHistory == Init /\ [][NextHistory]_vars

\* ------------------------------------------------------------------------
\* SpecTree: convert_func_space on every native tree, then the queries.
\* ------------------------------------------------------------------------
InitTree ==
    /\ native \in {Some(t) : t \in NativeTrees}
    /\ tree = None
    /\ qres = NoQuery
    /\ last = NoCall
    /\ seen = None

Convert ==
    /\ IsSome(native)
    /\ tree = None
    /\ tree' = Some(convert_func_space(Unwrap(native)))
    /\ UNCHANGED <<native, qres, last, seen>>

NextTree == Convert \/ Spaces \/ GetFunctions \/ GetClasses \/ GetAllSpaces

SpecTree == InitTree /\ [][NextTree]_vars

\* ------------------------------------------------------------------------
\* Positions of a tree: the index paths from the root; the reference the
\* query results are compared with.
\* ------------------------------------------------------------------------
RECURSIVE Positions(_)

Positions(t) ==
    {<<>>} \cup UNION {{<<i>> \o p : p \in Positions(t.spaces[i])} : i \in 1..Len(t.spaces)}

RECURSIVE NodeAt(_, _)

NodeAt(t, p) == IF p = <<>> THEN t ELSE NodeAt(t.spaces[p[1]], Tail(p))

PositionsOfKind(t, k) == {p \in Positions(t) : NodeAt(t, p).kind = k}

IsFunctionSpace(n) == n.kind = PySpaceKind.Function

IsClassSpace(n) == n.kind = PySpaceKind.Class

\* C1: get_functions / get_classes return exactly get_all_spaces(root)
\* restricted to the nodes of kind Function / Class: every returned node has
\* that kind, there is one returned node per position of that kind (root
\* included, any depth), and the order is that of get_all_spaces.
C1_QueryIsFilteredTraversal ==
    /\ qres.op = "get_functions" =>
         /\ qres.out = SelectSeq(get_all_spaces(Unwrap(tree)), IsFunctionSpace)
         /\ \A i \in 1..Len(qres.out) : qres.out[i].kind = PySpaceKind.Function
         /\ Len(qres.out) = Cardinality(PositionsOfKind(Unwrap(tree), PySpaceKind.Function))
    /\ qres.op = "get_classes" =>
         /\ qres.out = SelectSeq(get_all_spaces(Unwrap(tree)), IsClassSpace)
         /\ \A i \in 1..Len(qres.out) : qres.out[i].kind = PySpaceKind.Class
         /\ Len(qres.out) = Cardinality(PositionsOfKind(Unwrap(tree), PySpaceKind.Class))

\* A function root holding a class that holds a function: the root and the
\* node at depth two are both returned, the class between them is not.
C1_Witness ==
    /\ qres.op = "get_functions"
    /\ Unwrap(tree).kind = PySpaceKind.Function
    /\ \E p \in Positions(Unwrap(tree)) :
         /\ Len(p) = 2
         /\ NodeAt(Unwrap(tree), p).kind = PySpaceKind.Function
         /\ NodeAt(Unwrap(tree), <<p[1]>>).kind = PySpaceKind.Class
    /\ Len(qres.out) >= 2

\* C2: get_all_spaces(root) starts with the root and has one element per
\* node of the tree: its length is 1 + the number of descendants.
C2_AllSpacesRootFirstAndComplete ==
    qres.op = "get_all_spaces" =>
        /\ Len(qres.out) >= 1
        /\ qres.out[1] = Unwrap(tree)
        /\ Len(qres.out) = 1 + Cardinality(Positions(Unwrap(tree)) \ {<<>>})
        /\ \A p \in Positions(Unwrap(tree)) :
             \E i \in 1..Len(qres.out) : qres.out[i] = NodeAt(Unwrap(tree), p)

C2_Witness ==
    /\ qres.op = "get_all_spaces"
    /\ Len(qres.out) = MaxNodes
    /\ \E p \in Positions(Unwrap(tree)) : Len(p) = 2

\* C3: the built tree is isomorphic to the native tree: same name, start
\* line, end line, kind of the same name and number of children at every
\* node, the i-th built child corresponding to the i-th native child.
RECURSIVE Isomorphic(_, _)

Isomorphic(n, b) ==
    /\ b.name = n.name
    /\ b.start_line = n.start_line
    /\ b.end_line = n.end_line
    /\ PySpaceKindName(b.kind) = n.kind
    /\ Len(b.spaces) = Len(n.spaces)
    /\ \A i \in 1..Len(n.spaces) : Isomorphic(n.spaces[i], b.spaces[i])

C3_BuiltTreeIsomorphic ==
    (IsSome(native) /\ IsSome(tree)) => Isomorphic(Unwrap(native), Unwrap(tree))

\* A unit with one child of every other kind has been converted.
C3_Witness ==
    /\ IsSome(tree)
    /\ native = Some(AllKindsTree)
    /\ {Unwrap(tree).spaces[i].kind : i \in 1..Len(Unwrap(tree).spaces)} = 0..8 \ {PySpaceKind.Unit}

\* C5: every numeric field of the 12 metric groups of every node of a built
\* tree is finite.
MetricsFinite(m) ==
    \A g \in DOMAIN m : \A f \in DOMAIN m[g] : IsFinite(m[g][f])

C5_AllMetricsFinite ==
    IsSome(tree) =>
        \A p \in Positions(Unwrap(tree)) : MetricsFinite(NodeAt(Unwrap(tree), p).metrics)

\* The failure kinds as the caller sees them: the exception class and the
\* fixed head of the message.
IsUnsupportedLanguage(r) ==
    r.tag = "Err" /\ r.exc = "PyValueError" /\ r.msg[1] = "Unsupported language: '"

IsParseFailure(r) ==
    r.tag = "Err" /\ r.exc = "PyValueError" /\ r.msg = <<"Failed to parse source code">>

IsIoFailure(r) ==
    r.tag = "Err" /\ r.exc = "PyIOError" /\ r.msg[1] = "Failed to read file '"

\* C4: every name of supported_languages() is accepted by analyze as an
\* explicit language token: analyze(source, path, language = name) does not
\* fail with UnsupportedLanguage.
C4_SupportedNamesAccepted ==
    (/\ last.op = "analyze"
     /\ IsSome(last.args[3])
     /\ Unwrap(last.args[3]) \in Range(supported_languages))
    => ~IsUnsupportedLanguage(last.out)

\* C6: analyze with an explicit token the lookup does not recognise fails
\* with UnsupportedLanguage naming the token, whatever the path and the
\* source are; inference, the engine and the builder are not called.
C6_UnknownTokenRejected ==
    (/\ last.op = "analyze"
     /\ IsSome(last.args[3])
     /\ ~IsSome(get_from_ext(Unwrap(last.args[3]))))
    => /\ IsUnsupportedLanguage(last.out)
       /\ last.out.msg[2] = Unwrap(last.args[3])
       /\ last.out.value = None
       /\ tree = None
       /\ last.calls = <<"get_from_ext">>

\* The token "cobol" with a path and a source that inference would accept.
C6_Witness ==
    /\ last.op = "analyze"
    /\ last.args = <<SrcPy, "example.py", Some("cobol")>>
    /\ IsSome(guess_language(SrcPy, "example.py"))
    /\ IsUnsupportedLanguage(last.out)

\* C7: analyze_file on an unreadable path fails with IoFailure naming the
\* path; language resolution and the engine are not reached, also when the
\* explicit token is unsupported.
C7_UnreadableFileFailsFirst ==
    (last.op = "analyze_file" /\ ~read_to_string(last.args[1]).ok)
    => /\ IsIoFailure(last.out)
       /\ last.out.msg[2] = last.args[1]
       /\ last.out.value = None
       /\ last.calls = <<"read_to_string">>

C7_Witness ==
    /\ last.op = "analyze_file"
    /\ last.args = <<"missing.rs", Some("cobol")>>
    /\ ~IsSome(get_from_ext("cobol"))
    /\ IsIoFailure(last.out)

\* C8: language_from_extension always returns an Option: Some("python") for
\* "py", Some("rust") for "rs", None for every extension outside its table;
\* an upper-case or dotted spelling of a table entry is outside the table.
C8_ExtensionLookupTotal ==
    last.op = "language_from_extension" =>
        LET extension == last.args[1]
        IN  /\ last.out \in {None} \cup {Some(n) : n \in Range(supported_languages)}
            /\ extension = "py" => last.out = Some("python")
            /\ extension = "rs" => last.out = Some("rust")
            /\ extension \notin TableExtensions => last.out = None
            /\ extension \in {"PY", "Py", "RS", ".py", ".rs", "unknown"} => last.out = None

C8_Witness ==
    /\ last.op = "language_from_extension"
    /\ last.args = <<"PY">>
    /\ last.out = None

\* C9: an analyze call ends with a complete tree and no failure, or with one
\* failure and no tree; the engine is called only after the language was
\* resolved, the builder only after the engine returned a tree, and an
\* absent tree makes the call fail with ParseFailure.
C9_AllOrNothingOrdered ==
    last.op = "analyze" =>
        LET r == last.out
            c == last.calls
            lang == ResolveLanguage(last.args[1], last.args[2], last.args[3])
        IN  /\ \/ r.tag = "Ok" /\ IsSome(r.value) /\ r.exc = "" /\ r.msg = <<>> /\ tree = r.value
               \/ r.tag = "Err" /\ r.value = None /\ r.exc # "" /\ tree = None
            /\ \A i \in 1..Len(c) :
                 /\ c[i] = "get_function_spaces" =>
                      /\ i = 2
                      /\ c[1] = ResolveCall(last.args[3])
                      /\ IsSome(lang)
                 /\ c[i] = "convert_func_space" =>
                      /\ i = 3
                      /\ c[2] = "get_function_spaces"
                      /\ IsSome(get_function_spaces(Unwrap(lang), last.args[1], last.args[2]))
            /\ (/\ "get_function_spaces" \in Range(c)
                /\ ~IsSome(get_function_spaces(Unwrap(lang), last.args[1], last.args[2])))
               => IsParseFailure(r)
            /\ r.tag = "Ok" => c[Len(c)] = "convert_func_space"

\* The engine was called and returned no tree.
C9_Witness ==
    /\ last.op = "analyze"
    /\ last.calls = <<"guess_language", "get_function_spaces">>
    /\ IsParseFailure(last.out)
    /\ tree = None

FailureKinds == {"UnsupportedLanguage", "LanguageUndetermined", "IoFailure", "ParseFailure"}

FailedStep(calls) ==
    CASE calls[Len(calls)] = "get_from_ext" -> "UnsupportedLanguage"
      [] calls[Len(calls)] = "guess_language" -> "LanguageUndetermined"
      [] calls[Len(calls)] = "read_to_string" -> "IoFailure"
      [] calls[Len(calls)] = "get_function_spaces" -> "ParseFailure"

\* What the binding raises for each failure kind.
RaisedFor(kind) ==
    CASE kind = "UnsupportedLanguage" -> UnsupportedLanguage("")
      [] kind = "LanguageUndetermined" -> LanguageUndetermined("")
      [] kind = "IoFailure" -> IoFailure("", "")
      [] kind = "ParseFailure" -> ParseFailure

\* What the caller can tell failures apart by: the exception class alone,
\* or the class with the fixed head of the message.
ExceptionClass(r) == r.exc

ClassAndMessageHead(r) == <<r.exc, r.msg[1]>>

\* C11 (as stated): each of the four failure kinds is reported as a failure
\* kind of its own: the exception class of a failed call differs from the
\* class raised for each of the other three kinds.
C11_DistinctExceptionClass ==
    (last.op \in {"analyze", "analyze_file"} /\ last.out.tag = "Err") =>
        \A other \in FailureKinds \ {FailedStep(last.calls)} :
            ExceptionClass(RaisedFor(other)) # ExceptionClass(last.out)

\* C11 (amended): a failed call raises the exception of the step that
\* failed, and its class together with the head of its message differs from
\* that of the other three kinds; IoFailure alone has a class of its own,
\* the other three share PyValueError.
C11_DistinctClassAndMessage ==
    (last.op \in {"analyze", "analyze_file"} /\ last.out.tag = "Err") =>
        LET kind == FailedStep(last.calls)
        IN  /\ ClassAndMessageHead(last.out) = ClassAndMessageHead(RaisedFor(kind))
            /\ \A other \in FailureKinds \ {kind} :
                 ClassAndMessageHead(RaisedFor(other)) # ClassAndMessageHead(last.out)
            /\ (ExceptionClass(last.out) = "PyIOError") <=> (kind = "IoFailure")
            /\ kind # "IoFailure" => ExceptionClass(last.out) = "PyValueError"

\* Inference failed: a source without a mode line under a path whose
\* extension the engine does not know.
C11_Witness ==
    /\ last.op = "analyze"
    /\ last.args = <<SrcPy, "notes.txt", None>>
    /\ last.out.tag = "Err"
    /\ FailedStep(last.calls) = "LanguageUndetermined"
    /\ ExceptionClass(last.out) = ExceptionClass(RaisedFor("ParseFailure"))

\* The index paths of a tree in pre-order: the root, then the paths of each
\* child's subtree, child by child.
RECURSIVE Concat(_)

Concat(seqs) == IF seqs = <<>> THEN <<>> ELSE Head(seqs) \o Concat(Tail(seqs))

RECURSIVE PreOrderPositions(_)

PreOrderPositions(t) ==
    <<<<>>>> \o Concat([i \in 1..Len(t.spaces) |->
                          LET sub == PreOrderPositions(t.spaces[i])
                          IN  [j \in 1..Len(sub) |-> <<i>> \o sub[j]]])

IsProperPrefix(p, q) == Len(p) < Len(q) /\ SubSeq(q, 1, Len(p)) = p

\* p lies in the subtree of an earlier sibling of an ancestor-or-self of q.
InEarlierSiblingSubtree(p, q) ==
    \E k \in 1..Len(p) :
        /\ k <= Len(q)
        /\ SubSeq(p, 1, k - 1) = SubSeq(q, 1, k - 1)
        /\ p[k] < q[k]

\* C12: get_all_spaces is a pre-order traversal: for every node n of the
\* tree, get_all_spaces(n) is n followed by the concatenation of
\* get_all_spaces(c) over the children c in stored order; so in the result
\* every node comes before its descendants and the subtree of an earlier
\* sibling comes before every node of a later sibling.
C12_AllSpacesIsPreOrder ==
    qres.op = "get_all_spaces" =>
        LET root == Unwrap(tree)
            order == PreOrderPositions(root)
        IN  /\ \A p \in Positions(root) :
                 LET n == NodeAt(root, p)
                 IN  get_all_spaces(n) =
                        <<n>> \o Concat([i \in 1..Len(n.spaces) |-> get_all_spaces(n.spaces[i])])
            /\ Len(qres.out) = Len(order)
            /\ \A j \in 1..Len(order) : qres.out[j] = NodeAt(root, order[j])
            /\ \A j, k \in 1..Len(order) :
                 /\ IsProperPrefix(order[j], order[k]) => j < k
                 /\ InEarlierSiblingSubtree(order[j], order[k]) => j < k

\* A root with two different children, the first of which has a child: the
\* grandchild is returned before the second child.
C12_Witness ==
    /\ qres.op = "get_all_spaces"
    /\ Len(Unwrap(tree).spaces) = 2
    /\ Len(Unwrap(tree).spaces[1].spaces) = 1
    /\ Len(qres.out) = 4
    /\ qres.out[3] = NodeAt(Unwrap(tree), <<1, 1>>)
    /\ qres.out[4] = NodeAt(Unwrap(tree), <<2>>)
    /\ qres.out[3] # qres.out[4]
    /\ qres.out[2] # qres.out[4]

\* C13: the queries are read-only: a step taken while a tree is held leaves
\* the tree (and the native tree it was built from) unchanged, and a query
\* that is repeated returns what it returned before.
C13_QueriesReadOnly ==
    [][IsSome(tree) =>
          /\ tree' = tree
          /\ native' = native
          /\ qres'.op = qres.op => qres'.out = qres.out
          /\ qres'.op = "spaces" => qres'.out = Unwrap(tree).spaces
          /\ qres'.op = "get_functions" => qres'.out = get_functions(Unwrap(tree'))
          /\ qres'.op = "get_classes" => qres'.out = get_classes(Unwrap(tree'))
          /\ qres'.op = "get_all_spaces" => qres'.out = get_all_spaces(Unwrap(tree'))]_vars

\* After queries, the held tree is still the tree that was built, children
\* included.
C13_Witness ==
    /\ IsSome(tree)
    /\ qres.op = "spaces"
    /\ Len(qres.out) >= 2
    /\ \E i \in 1..Len(qres.out) : Len(qres.out[i].spaces) >= 1
    /\ tree = Some(convert_func_space(Unwrap(native)))

\* The names language_from_extension returns over the extensions of the
\* model (its table, other spellings of the table and unknown extensions).
ReturnedNames ==
    {Unwrap(language_from_extension(e)) : e \in {x \in Extensions : IsSome(language_from_extension(x))}}

\* C14: the names language_from_extension returns are the names of
\* supported_languages() without "c": every returned name is listed, every
\* listed name but "c" is returned for some extension, and the extensions
\* "c" and "h" map to "cpp".
C14_TablesAgreeExceptC ==
    /\ ReturnedNames = Range(supported_languages) \ {"c"}
    /\ "c" \in Range(supported_languages)
    /\ last.op = "language_from_extension" =>
         /\ IsSome(last.out) => Unwrap(last.out) \in Range(supported_languages) \ {"c"}
         /\ last.args[1] \in {"c", "h"} => last.out = Some("cpp")
         /\ last.out # Some("c")

C14_Witness ==
    /\ last.op = "language_from_extension"
    /\ last.args = <<"h">>
    /\ last.out = Some("cpp")
    /\ "c" \in Range(supported_languages)

====
